---- MODULE Spec2Model ----
(***************************************************************************)
(* Verification model of the generative-AI integration layer of            *)
(* ebook_summarizer_and_mindmap: the backend Gemini service contract       *)
(* (RateLimiter, RequestQueue, retry_with_backoff, _log_api_call,          *)
(* DocumentCache) and the frontend Axios client retry logic.               *)
(*                                                                         *)
(* Time is measured in seconds; money in units of 1e-8 USD so that the     *)
(* per-token prices 0.00075/1000 and 0.003/1000 are the integers 75 and    *)
(* 300.                                                                    *)
(***************************************************************************)
EXTENDS Integers, Sequences, FiniteSets, TLC

(***************************************************************************)
(* Bounds of the model                                                     *)
(***************************************************************************)
\* number of process_queue worker tasks started on the RequestQueue
NumWorkers == 3
\* number of documents for which a generation is requested
NumReqs == 3
\* the clock advances in steps of TickSeconds up to MaxTime
TickSeconds == 30
MaxTime == 60
\* RateLimiter(requests_per_minute=...) as configured in the model
rpm == 1
\* RequestQueue(max_concurrent=...) as configured in the model
max_concurrent == 2
\* DAILY_BUDGET_LIMIT as configured in the model, in 1e-8 USD
DAILY_BUDGET_LIMIT == 225000
\* DocumentCache capacity in bytes (max_size_mb * 1024 * 1024)
CapacityBytes == 200
\* at most this many remote calls are issued in a run
MaxCalls == 3
\* at most this many worker tasks are cancelled
MaxCancels == 1
\* random.uniform(0, 1) of the backoff delay, in milliseconds
Jitters == {0, 999}

(***************************************************************************)
(* Program constants                                                       *)
(***************************************************************************)
\* RateLimiter.acquire: the literal 60 of the sliding window
WindowSeconds == 60
\* retry_with_backoff(max_retries=3, base_delay=1.0); delays in milliseconds
max_retries == 3
base_delay == 1000
\* the HTTP client's config.maxRetries and config.retryDelay (milliseconds)
maxRetries == 3
retryDelay == 1000
\* max_delay of the documented backoff formula (milliseconds)
maxDelay == 60000
\* _log_api_call: price_input = 0.00075 / 1000, price_output = 0.003 / 1000
price_input == 75
price_output == 300
\* DocumentCache.__init__: maxsize = bytes / 100 ("rough estimate")
EntryEstimateBytes == 100

Workers == 1..NumWorkers
Reqs == 1..NumReqs
Times == {t \in 0..MaxTime : t % TickSeconds = 0}
Ops == {"summarize", "mindmap"}
Texts == {"T1", "T2"}
None == "None"

VARIABLES
  now,            \* time.time()
  request_times,  \* RateLimiter.request_times
  grants,         \* history: number of permits granted at each time
  semaphore,      \* RequestQueue.semaphore: free slots
  queue,          \* RequestQueue.queue: items not yet taken by a worker
  unfinished,     \* asyncio.Queue unfinished task counter
  wpc,            \* position of each process_queue worker
  witem,          \* the queue item a worker is processing
  wwake,          \* time at which a worker sleeping in acquire() may wake
  attempt,        \* retry_with_backoff: loop variable of the worker's call
  delay,          \* retry_with_backoff: the backoff delay being slept
  status,         \* generation_status of each request
  reqOp,          \* operation of each request
  reqText,        \* document text of each request
  result,         \* what the caller of a request received
  failKind,       \* exception with which a request failed
  lastErr,        \* history: exception raised by the request's last call
  calls,          \* history: remote calls issued for each request
  permits,        \* history: limiter permits granted for each request
  slots,          \* history: semaphore slots acquired for each request
  overBudget,     \* history: daily cost >= limit when the request missed
  api_log,        \* APILog rows per document
  warnings,       \* "Daily budget exceeded" warnings logged
  cache,          \* DocumentCache.cache (LRUCache), least recent first
  stats,          \* DocumentCache.stats
  everPut,        \* history: keys ever passed to DocumentCache.set
  got,            \* key and result of the last direct DocumentCache.get
  lastOp,         \* the last direct cache operation
  cacheOps,       \* number of direct cache operations
  accessed_at,    \* history: CacheEntry.accessed_at, in cache operations
  c_pc,           \* position of the HTTP client request
  c_retry,        \* requestConfig._retry
  c_calls,        \* history: requests sent to the server
  c_sleeps,       \* history: delays slept before each retry
  c_lastErr,      \* history: ApiError built for the last failed attempt
  c_reply,        \* history: the last reply handled by the interceptor
  c_rejected,     \* ApiError with which the request promise was rejected
  v_pc,           \* position of the mindmap validation
  v_tree,         \* mindmap_obj, the parsed JSON tree
  v_result,       \* outcome of each validator on v_tree
  documents,      \* store: DocumentState.documents
  currentDocument,\* store: DocumentState.currentDocument (<<>> is null)
  loading,        \* store: DocumentState.loading
  errors,         \* store: DocumentState.errors
  s_last,         \* history: the last store action and its arguments
  s_ops,          \* history: number of store actions
  f_pc,           \* position of the caller of formatError
  f_error,        \* the error object being formatted
  f_result        \* the FormattedError returned

backendVars == <<now, request_times, grants, semaphore, queue, unfinished,
                 wpc, witem, wwake, attempt, delay, status, reqOp, reqText,
                 result, failKind, lastErr, calls, permits, slots,
                 overBudget, api_log, warnings>>
cacheVars == <<cache, stats, everPut>>
cacheCallerVars == <<got, lastOp, cacheOps, accessed_at>>
clientVars ==
  <<c_pc, c_retry, c_calls, c_sleeps, c_lastErr, c_reply, c_rejected>>
validatorVars == <<v_pc, v_tree, v_result>>
storeVars == <<documents, currentDocument, loading, errors, s_last, s_ops>>
formatterVars == <<f_pc, f_error, f_result>>
vars == <<backendVars, cacheVars, cacheCallerVars, clientVars, validatorVars,
          storeVars, formatterVars>>

(***************************************************************************)
(* RateLimiter                                                             *)
(***************************************************************************)
\* self.request_times = [t for t in self.request_times if now - t < 60]
PruneTimes(rt, t) == SelectSeq(rt, LAMBDA x : t - x < WindowSeconds)

\* if len(self.request_times) >= self.rpm
AtCapacity(rt) == Len(rt) >= rpm

\* wait_time = 60 - (now - self.request_times[0])
WaitTime_Short(rt, t) == WindowSeconds - TickSeconds - (t - rt[1])
WaitTime(rt, t) == WindowSeconds - (t - rt[1])

(***************************************************************************)
(* DocumentCache over cachetools.LRUCache (every entry counts as 1)        *)
(***************************************************************************)
\* cache_key = hash(text) / SHA-256(document_text)
cache_key(text) == <<"sha256", text>>

CacheKeysOf(c) == {c[i].key : i \in 1..Len(c)}

CacheIndex(c, k) == CHOOSE i \in 1..Len(c) : c[i].key = k

\* LRUCache: move the entry of key k to the most-recently-used end
Touch(c, k) ==
  LET i == CacheIndex(c, k)
  IN  Append(SubSeq(c, 1, i - 1) \o SubSeq(c, i + 1, Len(c)), c[i])

\* LRUCache.get(key): the value (refreshing its recency) or None
LruValue(c, k) == IF k \in CacheKeysOf(c) THEN c[CacheIndex(c, k)].value ELSE None
LruAfterGet(c, k) == IF k \in CacheKeysOf(c) THEN Touch(c, k) ELSE c

\* Python truthiness of a cached value: None and the empty string are falsy
Truthy(v) == v # None /\ v # ""

\* DocumentCache.get: if result := self.cache.get(key): hit else miss
CacheGetResult_AnyEntry(c, k) == IF c # <<>> THEN c[1].value ELSE None
CacheGetResult(c, k) == IF Truthy(LruValue(c, k)) THEN LruValue(c, k) ELSE None
StatsAfterGet(s, c, k) ==
  IF Truthy(LruValue(c, k)) THEN [s EXCEPT !.hits = @ + 1]
  ELSE [s EXCEPT !.misses = @ + 1]

\* LRUCache.popitem until the new entry (size 1) fits maxsize = bytes / 100
RECURSIVE EvictFor_Newest(_)
EvictFor_Newest(c) ==
  IF (Len(c) + 1) * EntryEstimateBytes > CapacityBytes /\ Len(c) > 0
  THEN EvictFor_Newest(SubSeq(c, 1, Len(c) - 1))
  ELSE c
RECURSIVE EvictFor(_)
EvictFor(c) ==
  IF (Len(c) + 1) * EntryEstimateBytes > CapacityBytes /\ Len(c) > 0
  THEN EvictFor(Tail(c))
  ELSE c

\* LRUCache.currsize: every entry counts 1 of maxsize, 100 bytes of the limit
CurrSize(c) == Len(c) * EntryEstimateBytes

\* DocumentCache.set: self.cache[key] = value
CacheAfterSet_Append(c, k, v) ==
  IF EntryEstimateBytes > CapacityBytes THEN c
  ELSE Append(EvictFor(c), [key |-> k, value |-> v])
CacheAfterSet(c, k, v) ==
  IF EntryEstimateBytes > CapacityBytes THEN c   \* ValueError: value too large
  ELSE IF k \in CacheKeysOf(c)
       THEN Append(SubSeq(c, 1, CacheIndex(c, k) - 1)
                   \o SubSeq(c, CacheIndex(c, k) + 1, Len(c)),
                   [key |-> k, value |-> v])
       ELSE Append(EvictFor(c), [key |-> k, value |-> v])

(***************************************************************************)
(* Remote generation service and cost log                                  *)
(***************************************************************************)
\* exceptions raised by client.generate_content
Exceptions == {"TimeoutError", "RateLimitError", "NonRetryableError"}

\* response.text.strip() / json_text returned by the service
ResponseTexts(op) ==
  IF op = "summarize" THEN {"", "p", "PP"} ELSE {"notjson", "Mdeep", "M"}

\* generate_summary / generate_mindmap: the exception raised on a response,
\* or "ok"
ResponseError(op, text) ==
  IF op = "summarize"
  THEN IF text = "" THEN "GeminiAPIError" ELSE "ok"
  ELSE IF text = "notjson" THEN "GeminiAPIError"
       ELSE IF text = "Mdeep" THEN "ValidationError" ELSE "ok"

\* except (TimeoutError, RateLimitError)
Retryable(e) == e \in {"TimeoutError", "RateLimitError"}

\* APILog.status of a call
LogStatus_AlwaysSuccess(e) == "success"
LogStatus(e) ==
  IF e = "ok" THEN "success"
  ELSE IF e = "TimeoutError" THEN "timeout"
  ELSE IF e = "RateLimitError" THEN "rate_limited" ELSE "error"

\* cost_usd = (tokens_input * price_input) + (tokens_output * price_output)
cost_usd(tokens_input, tokens_output) ==
  (tokens_input * price_input) + (tokens_output * price_output)

RECURSIVE SumCost(_)
SumCost(rows) ==
  IF rows = <<>> THEN 0 ELSE Head(rows).cost_usd + SumCost(Tail(rows))

RECURSIVE SumOver(_, _)
SumOver(log, rs) ==
  IF rs = {} THEN 0
  ELSE LET r == CHOOSE x \in rs : TRUE
       IN  SumCost(log[r]) + SumOver(log, rs \ {r})

\* _calculate_daily_cost: SUM(cost_usd) of today's rows
DailyCost(log) == SumOver(log, Reqs)

\* the budget check of _log_api_call
BudgetExceeded_AtLimit(daily_cost) == daily_cost >= DAILY_BUDGET_LIMIT
BudgetExceeded(daily_cost) == daily_cost > DAILY_BUDGET_LIMIT

\* tokens reported by a response of the service; an exception reports none
TokensIn(e) ==
  IF e \in Exceptions THEN 0 ELSE IF e = "PP" THEN 1001 ELSE 1000
TokensOut(e) == IF e \in Exceptions THEN 0 ELSE 500

\* the column APILog.cost_usd is Decimal(10, 6): one unit of its last digit,
\* in the model's unit of 10^-8 USD
CostQuantum == 100

\* the value the column keeps, rounded to its last digit (no value of the
\* model lies half-way between two column values)
StoredDecimal(c) == ((c + CostQuantum \div 2) \div CostQuantum) * CostQuantum

\* _log_api_call: the row added and the warning count after the check
LogRow(op, e, resp) ==
  [operation |-> op, status |-> LogStatus(e),
   tokens_input |-> TokensIn(resp), tokens_output |-> TokensOut(resp),
   cost_usd |-> StoredDecimal(cost_usd(TokensIn(resp), TokensOut(resp)))]

\* requestConfig._retry before the request interceptor has run
NoRetry == [present |-> FALSE, retries |-> 0, retryDelay |-> 0]

\* no ApiError yet
NoError ==
  [errorCode |-> None, message |-> "", statusCode |-> 0, isRetryable |-> FALSE]
\* no reply received yet
NoReply == [kind |-> "none", status |-> 0, error_code |-> None, detail |-> ""]

(***************************************************************************)
(* Mindmap JSON trees                                                      *)
(***************************************************************************)
\* obj["title"]: a string, a value of another type, or no such key
OkTitle == [kind |-> "str", text |-> "Topic"]
EmptyTitle == [kind |-> "str", text |-> ""]
NumberTitle == [kind |-> "num", text |-> "7"]
MissingTitle == [kind |-> "missing", text |-> ""]

\* a JSON object with the keys "title" and "children" (a list)
Node(title, items) ==
  [title |-> title, children |-> [kind |-> "list", items |-> items]]
\* a JSON object without the key "children"
NodeNoChildren(title) ==
  [title |-> title, children |-> [kind |-> "missing", items |-> <<>>]]
Leaf == Node(OkTitle, <<>>)

\* no validator has run
NoVerdict == [json |-> None, structure |-> None]

(***************************************************************************)
(* Document store                                                          *)
(***************************************************************************)
\* initialState.loading and initialState.errors (None: no message)
initialLoading ==
  [documents |-> FALSE, upload |-> FALSE, summary |-> FALSE,
   mindmap |-> FALSE]
initialErrors ==
  [documents |-> None, upload |-> None, summary |-> None, mindmap |-> None]
\* Partial<Document> with no key
NoUpdates ==
  [keys |-> {}, vals |-> [id |-> 0, filename |-> "", upload_status |-> ""]]
NoAction == [op |-> None, id |-> 0, updates |-> NoUpdates]

(***************************************************************************)
(* errorFormatter                                                          *)
(***************************************************************************)
\* enum ErrorCode of errorFormatter
FormatterErrorCodes ==
  {"INVALID_PDF", "FILE_TOO_LARGE", "UNSUPPORTED_FILE_TYPE",
   "FILE_CORRUPTED", "FILE_NOT_FOUND", "DUPLICATE_FILE", "RATE_LIMITED",
   "TIMEOUT", "API_ERROR", "AUTH_ERROR", "QUOTA_EXCEEDED", "DB_ERROR",
   "DB_CONNECTION_ERROR", "DB_TRANSACTION_ERROR", "RECORD_NOT_FOUND",
   "DUPLICATE_RECORD", "PARSING_ERROR", "GENERATION_ERROR",
   "VALIDATION_ERROR", "PROCESSING_TIMEOUT", "DOCUMENT_NOT_READY",
   "INVALID_STATE", "OPERATION_NOT_ALLOWED", "INTERNAL_ERROR",
   "UNKNOWN_ERROR", "CONFIGURATION_ERROR"}

\* ERROR_MESSAGES of errorFormatter
FormatterErrorMessages ==
  [c \in FormatterErrorCodes |->
    CASE c = "INVALID_PDF" ->
      [title |-> "Invalid File",
       message |-> "The uploaded file is not a valid PDF",
       isRetryable |-> FALSE]
    [] c = "FILE_TOO_LARGE" ->
      [title |-> "File Too Large",
       message |-> "File size exceeds 100MB limit",
       isRetryable |-> FALSE]
    [] c = "UNSUPPORTED_FILE_TYPE" ->
      [title |-> "Unsupported File Type",
       message |-> "Please upload a PDF file",
       isRetryable |-> FALSE]
    [] c = "FILE_CORRUPTED" ->
      [title |-> "Corrupted File",
       message |-> "The uploaded file appears to be corrupted",
       isRetryable |-> FALSE]
    [] c = "FILE_NOT_FOUND" ->
      [title |-> "File Not Found",
       message |-> "The requested file was not found",
       isRetryable |-> FALSE]
    [] c = "DUPLICATE_FILE" ->
      [title |-> "Duplicate File",
       message |-> "This file has already been uploaded",
       isRetryable |-> FALSE]
    [] c = "RATE_LIMITED" ->
      [title |-> "Too Many Requests",
       message |-> "Too many requests, please try again later",
       isRetryable |-> TRUE]
    [] c = "TIMEOUT" ->
      [title |-> "Request Timeout",
       message |-> "Request timed out, please try again",
       isRetryable |-> TRUE]
    [] c = "API_ERROR" ->
      [title |-> "API Error",
       message |-> "An error occurred while communicating with the server",
       isRetryable |-> TRUE]
    [] c = "AUTH_ERROR" ->
      [title |-> "Authentication Error",
       message |-> "Authentication failed, please sign in again",
       isRetryable |-> FALSE]
    [] c = "QUOTA_EXCEEDED" ->
      [title |-> "Quota Exceeded",
       message |-> "Your usage quota has been exceeded",
       isRetryable |-> FALSE]
    [] c = "DB_ERROR" ->
      [title |-> "Database Error",
       message |-> "A database error occurred, please try again",
       isRetryable |-> TRUE]
    [] c = "DB_CONNECTION_ERROR" ->
      [title |-> "Connection Error",
       message |-> "Failed to connect to the database",
       isRetryable |-> TRUE]
    [] c = "DB_TRANSACTION_ERROR" ->
      [title |-> "Transaction Error",
       message |-> "A database transaction error occurred",
       isRetryable |-> TRUE]
    [] c = "RECORD_NOT_FOUND" ->
      [title |-> "Not Found",
       message |-> "The requested record was not found",
       isRetryable |-> FALSE]
    [] c = "DUPLICATE_RECORD" ->
      [title |-> "Duplicate Record",
       message |-> "A record with this information already exists",
       isRetryable |-> FALSE]
    [] c = "PARSING_ERROR" ->
      [title |-> "Parsing Error",
       message |-> "Failed to parse the document",
       isRetryable |-> FALSE]
    [] c = "GENERATION_ERROR" ->
      [title |-> "Generation Error",
       message |-> "Failed to generate content",
       isRetryable |-> TRUE]
    [] c = "VALIDATION_ERROR" ->
      [title |-> "Validation Error",
       message |-> "The provided data is invalid",
       isRetryable |-> FALSE]
    [] c = "PROCESSING_TIMEOUT" ->
      [title |-> "Processing Timeout",
       message |-> "Processing took too long, please try again",
       isRetryable |-> TRUE]
    [] c = "DOCUMENT_NOT_READY" ->
      [title |-> "Document Not Ready",
       message |-> "The document is still being processed",
       isRetryable |-> TRUE]
    [] c = "INVALID_STATE" ->
      [title |-> "Invalid State",
       message |-> "The operation cannot be performed in the current state",
       isRetryable |-> FALSE]
    [] c = "OPERATION_NOT_ALLOWED" ->
      [title |-> "Operation Not Allowed",
       message |-> "This operation is not allowed",
       isRetryable |-> FALSE]
    [] c = "INTERNAL_ERROR" ->
      [title |-> "Internal Error",
       message |-> "An internal error occurred, please try again",
       isRetryable |-> TRUE]
    [] c = "UNKNOWN_ERROR" ->
      [title |-> "Unknown Error",
       message |-> "An unknown error occurred, please try again",
       isRetryable |-> TRUE]
    [] c = "CONFIGURATION_ERROR" ->
      [title |-> "Configuration Error",
       message |-> "A configuration error occurred",
       isRetryable |-> FALSE]]

\* the error objects formatted: axios code, request/response presence, the
\* backend's error_code and message, the HTTP status and its text; None is
\* an absent key, status 0 an absent or non-numeric status
ErrorObject(code, request, response, error_code, message, details, statusCode, statusText) ==
  [code |-> code, request |-> request, response |-> response,
   error_code |-> error_code, message |-> message, details |-> details,
   status |-> statusCode, statusText |-> statusText]

\* FormattedError; None is an absent key
Formatted(title, message, isRetryable) ==
  [title |-> title, message |-> message, isRetryable |-> isRetryable]
NoFormatted == Formatted(None, None, FALSE)

\* err.message?.includes("Network Error")
IncludesNetworkError(message) == message = "Network Error"

isNetworkError(error) ==
  /\ \/ error.code \in {"ERR_NETWORK", "ECONNREFUSED"}
     \/ IncludesNetworkError(error.message)
  /\ error.request
  /\ ~error.response

\* "error_code" in error || "message" in error
isApiError(error) == error.error_code # None \/ error.message # None

\* "status" in error && typeof error.status === "number"
isHttpError(error) == error.status # 0

\* a JavaScript string that is neither undefined nor ""
TruthyString(x) == x # None /\ x # ""

\* statusMessages of formatHttpError
StatusCodes == {400, 401, 403, 404, 409, 429, 500, 502, 503, 504}
statusMessages ==
  [st \in StatusCodes |->
    CASE st = 400 ->
           Formatted("Bad Request",
             "The request was invalid. Please check your input and try again.",
             FALSE)
      [] st = 401 ->
           Formatted("Unauthorized",
             "You need to sign in to access this resource.", FALSE)
      [] st = 403 ->
           Formatted("Forbidden",
             "You don't have permission to access this resource.", FALSE)
      [] st = 404 ->
           Formatted("Not Found", "The requested resource was not found.",
             FALSE)
      [] st = 409 ->
           Formatted("Conflict",
             "The request conflicts with the current state of the resource.",
             FALSE)
      [] st = 429 ->
           Formatted("Too Many Requests",
             "Too many requests. Please wait a moment and try again.", TRUE)
      [] st = 500 ->
           Formatted("Server Error",
             "The server encountered an error. Please try again later.", TRUE)
      [] st = 502 ->
           Formatted("Bad Gateway",
             "The server is temporarily unavailable. Please try again later.",
             TRUE)
      [] st = 503 ->
           Formatted("Service Unavailable",
             "The service is temporarily unavailable. Please try again later.",
             TRUE)
      [] st = 504 ->
           Formatted("Gateway Timeout",
             "The request took too long to complete. Please try again.",
             TRUE)]

formatHttpError(error) ==
  IF error.status \in StatusCodes THEN statusMessages[error.status]
  ELSE Formatted("Error",
         IF TruthyString(error.statusText) THEN error.statusText
         ELSE "An error occurred. Please try again.",
         error.status >= 500)

\* errorCode && ERROR_MESSAGES[errorCode]
Mapped(errorCode) == TruthyString(errorCode) /\ errorCode \in FormatterErrorCodes

formatError(error) ==
  IF isNetworkError(error)
  THEN Formatted("Network Error",
         "Unable to connect to the server. Please check your internet connection and try again.",
         TRUE)
  ELSE IF isApiError(error) /\ Mapped(error.error_code)
  THEN LET errorConfig == FormatterErrorMessages[error.error_code]
       IN  IF error.error_code = "VALIDATION_ERROR" /\ error.details
           THEN errorConfig
           ELSE Formatted(errorConfig.title,
                  IF TruthyString(error.message) THEN error.message
                  ELSE errorConfig.message,
                  errorConfig.isRetryable)
  ELSE IF isApiError(error) /\ TruthyString(error.message)
  THEN Formatted(None, error.message, FALSE)
  ELSE IF isHttpError(error) THEN formatHttpError(error)
  ELSE Formatted("Error", "An unexpected error occurred. Please try again.",
         TRUE)

\* isRetryableError of errorFormatter: formatted.isRetryable || false
FormatterIsRetryableError(error) == formatError(error).isRetryable

\* the error objects given to formatError
AxiosCodes == {None, "ERR_NETWORK"}
BackendCodes == FormatterErrorCodes \cup {None, "", "NETWORK_ERROR", "NEW_CODE"}
Messages == {None, "", "Network Error", "Request failed"}
Statuses ==
  {0, 400, 401, 403, 404, 409, 418, 429, 499, 500, 501, 502, 503, 504, 599}
StatusTexts == {None, "I'm a teapot"}
Presences == {<<FALSE, FALSE>>, <<TRUE, FALSE>>, <<TRUE, TRUE>>}
ErrorObjects ==
  {ErrorObject(code, p[1], p[2], error_code, message, details, statusCode,
               statusText) :
     code \in AxiosCodes, p \in Presences,
     error_code \in {None, "", "NEW_CODE", "VALIDATION_ERROR", "DB_ERROR"},
     message \in Messages, details \in BOOLEAN, statusCode \in Statuses,
     statusText \in StatusTexts}
  \cup
  {ErrorObject(code, p[1], p[2], error_code, message, details, statusCode,
               None) :
     code \in AxiosCodes, p \in Presences, error_code \in BackendCodes,
     message \in Messages, details \in BOOLEAN, statusCode \in {0, 500}}
NoErrorObject == ErrorObject(None, FALSE, FALSE, None, None, FALSE, 0, None)

(***************************************************************************)
(* Initial state                                                           *)
(***************************************************************************)
Init ==
  /\ now = 0
  /\ request_times = <<>>
  /\ grants = [t \in Times |-> 0]
  /\ semaphore = max_concurrent
  /\ queue = <<>>
  /\ unfinished = 0
  /\ wpc = [w \in Workers |-> "idle"]
  /\ witem = [w \in Workers |-> 0]
  /\ wwake = [w \in Workers |-> 0]
  /\ attempt = [w \in Workers |-> 0]
  /\ delay = [w \in Workers |-> 0]
  /\ status = [r \in Reqs |-> "new"]
  /\ reqOp = [r \in Reqs |-> "summarize"]
  /\ reqText = [r \in Reqs |-> "T1"]
  /\ result = [r \in Reqs |-> None]
  /\ failKind = [r \in Reqs |-> None]
  /\ lastErr = [r \in Reqs |-> None]
  /\ calls = [r \in Reqs |-> 0]
  /\ permits = [r \in Reqs |-> 0]
  /\ slots = [r \in Reqs |-> 0]
  /\ overBudget = [r \in Reqs |-> FALSE]
  /\ api_log = [r \in Reqs |-> <<>>]
  /\ warnings = 0
  /\ cache = <<>>
  /\ stats = [hits |-> 0, misses |-> 0]
  /\ everPut = {}
  /\ got = [key |-> <<>>, value |-> None]
  /\ lastOp = None
  /\ cacheOps = 0
  /\ accessed_at = [t \in Texts \cup {"T3", "T4"} |-> 0]
  /\ c_pc = "idle"
  /\ c_retry = NoRetry
  /\ c_calls = 0
  /\ c_sleeps = <<>>
  /\ c_lastErr = NoError
  /\ c_reply = NoReply
  /\ c_rejected = NoError
  /\ v_pc = "idle"
  /\ v_tree = Leaf
  /\ v_result = NoVerdict
  /\ documents = <<>>
  /\ currentDocument = <<>>
  /\ loading = initialLoading
  /\ errors = initialErrors
  /\ s_last = NoAction
  /\ s_ops = 0
  /\ f_pc = "idle"
  /\ f_error = NoErrorObject
  /\ f_result = NoFormatted

(***************************************************************************)
(* Backend actions                                                         *)
(***************************************************************************)
RECURSIVE Pow(_, _)
Pow(b, n) == IF n = 0 THEN 1 ELSE b * Pow(b, n - 1)

\* A user requests a summary or mindmap of a document: the cache is
\* checked first; a hit returns the cached value, a miss queues the request.
Submit(r, op, text) ==
  /\ status[r] = "new"
  /\ \A q \in Reqs : q < r => status[q] # "new"
  /\ reqOp' = [reqOp EXCEPT ![r] = op]
  /\ reqText' = [reqText EXCEPT ![r] = text]
  /\ cache' = LruAfterGet(cache, cache_key(text))
  /\ stats' = StatsAfterGet(stats, cache, cache_key(text))
  /\ IF CacheGetResult(cache, cache_key(text)) # None
     THEN /\ status' = [status EXCEPT ![r] = "complete"]
          /\ result' = [result EXCEPT ![r] = CacheGetResult(cache, cache_key(text))]
          /\ UNCHANGED <<queue, unfinished, overBudget>>
     ELSE /\ status' = [status EXCEPT ![r] = "queued"]
          /\ queue' = Append(queue, r)
          /\ unfinished' = unfinished + 1
          /\ overBudget' = [overBudget EXCEPT
                              ![r] = DailyCost(api_log) >= DAILY_BUDGET_LIMIT]
          /\ UNCHANGED result
  /\ UNCHANGED <<now, request_times, grants, semaphore, wpc, witem, wwake,
                 attempt, delay, failKind, lastErr, calls, permits, slots,
                 api_log, warnings, everPut>>
  /\ UNCHANGED <<cacheCallerVars, clientVars, validatorVars, storeVars,
                 formatterVars>>

\* process_queue: item = await self.queue.get(); the getters of an
\* asyncio.Queue are served in order, the idle workers are interchangeable
Dequeue(w) ==
  /\ wpc[w] = "idle"
  /\ \A v \in Workers : v < w => wpc[v] # "idle"
  /\ queue # <<>>
  /\ witem' = [witem EXCEPT ![w] = Head(queue)]
  /\ queue' = Tail(queue)
  /\ wpc' = [wpc EXCEPT ![w] = "sem"]
  /\ UNCHANGED <<now, request_times, grants, semaphore, unfinished, wwake,
                 attempt, delay, status, reqOp, reqText, result, failKind,
                 lastErr, calls, permits, slots, overBudget, api_log,
                 warnings, cache, stats, everPut,
                 cacheCallerVars, clientVars, validatorVars, storeVars,
                 formatterVars>>

RECURSIVE TotalCalls(_, _)
TotalCalls(c, rs) ==
  IF rs = {} THEN 0
  ELSE LET r == CHOOSE x \in rs : TRUE IN c[r] + TotalCalls(c, rs \ {r})

\* the run explored may issue one more remote call
MayCall == TotalCalls(calls, Reqs) < MaxCalls

\* the permit is recorded and the first call of retry_with_backoff starts
GrantAndCall(w, rt) ==
  /\ request_times' = Append(rt, now)
  /\ grants' = [grants EXCEPT ![now] = @ + 1]
  /\ permits' = [permits EXCEPT ![witem[w]] = @ + 1]
  /\ calls' = [calls EXCEPT ![witem[w]] = @ + 1]
  /\ status' = [status EXCEPT ![witem[w]] = "generating"]
  /\ attempt' = [attempt EXCEPT ![w] = 0]
  /\ wpc' = [wpc EXCEPT ![w] = "inflight"]

\* asyncio.Semaphore: a slot can be taken without waiting
SlotAvailable_Always(s) == TRUE
SlotAvailable(s) == s > 0

\* process_queue: async with self.semaphore, then rate_limiter.acquire()
\* up to its first suspension
Enter(w) ==
  /\ wpc[w] = "sem"
  /\ SlotAvailable(semaphore)
  /\ semaphore' = semaphore - 1
  /\ slots' = [slots EXCEPT ![witem[w]] = @ + 1]
  /\ LET rt == PruneTimes(request_times, now)
     IN  IF AtCapacity(rt)
         THEN /\ request_times' = rt
              /\ wwake' = [wwake EXCEPT ![w] = now + WaitTime(rt, now)]
              /\ wpc' = [wpc EXCEPT ![w] = "rlwait"]
              /\ UNCHANGED <<grants, permits, calls, status, attempt>>
         ELSE /\ GrantAndCall(w, rt)
              /\ UNCHANGED wwake
  /\ UNCHANGED <<now, queue, unfinished, witem, delay, reqOp, reqText,
                 result, failKind, lastErr, overBudget, api_log, warnings,
                 cache, stats, everPut,
                 cacheCallerVars, clientVars, validatorVars, storeVars,
                 formatterVars>>

\* RateLimiter.acquire after asyncio.sleep(wait_time):
\* self.request_times.append(time.time())
RlWake(w) ==
  /\ wpc[w] = "rlwait"
  /\ now >= wwake[w]
  /\ GrantAndCall(w, request_times)
  /\ UNCHANGED <<now, semaphore, queue, unfinished, witem, wwake, delay,
                 reqOp, reqText, result, failKind, lastErr, slots,
                 overBudget, api_log, warnings, cache, stats, everPut,
                 cacheCallerVars, clientVars, validatorVars, storeVars,
                 formatterVars>>

\* the request leaves process_queue: the semaphore is released and
\* queue.task_done() runs
Finish_Requeue(w, st, res, kind) ==
  /\ status' = [status EXCEPT
                  ![witem[w]] = IF st = "failed" /\ kind # "NonRetryableError"
                                THEN "queued" ELSE st]
  /\ result' = [result EXCEPT ![witem[w]] = res]
  /\ failKind' = [failKind EXCEPT ![witem[w]] = kind]
  /\ semaphore' = semaphore + 1
  /\ unfinished' = unfinished - 1
  /\ wpc' = [wpc EXCEPT ![w] = "idle"]
  /\ witem' = [witem EXCEPT ![w] = 0]
Finish(w, st, res, kind) ==
  /\ status' = [status EXCEPT ![witem[w]] = st]
  /\ result' = [result EXCEPT ![witem[w]] = res]
  /\ failKind' = [failKind EXCEPT ![witem[w]] = kind]
  /\ semaphore' = semaphore + 1
  /\ unfinished' = unfinished - 1
  /\ wpc' = [wpc EXCEPT ![w] = "idle"]
  /\ witem' = [witem EXCEPT ![w] = 0]

\* retry_with_backoff: what the loop does with the outcome e of a call
RetryDecision_GiveUp(e, n) ==
  IF e = "ok" THEN "return"
  ELSE IF Retryable(e) THEN "exhausted" ELSE "raise"
RetryDecision(e, n) ==
  IF e = "ok" THEN "return"
  ELSE IF Retryable(e)
       THEN IF n = max_retries - 1 THEN "exhausted" ELSE "sleep"
       ELSE "raise"

\* raise GeminiAPIError(f"Failed after {max_retries} retries: ...")
ExhaustedError(e) == "GeminiAPIError"

\* delay = base_delay * (2 ** attempt) + random.uniform(0, 1)
BackoffDelay(n, jitter) == base_delay * Pow(2, n) + jitter

\* the remote call of a worker returns x (an exception or a response text):
\* the call is logged, then retry_with_backoff and the processing of the
\* item continue up to the next suspension
CallReturn(w, x, jitter) ==
  /\ wpc[w] = "inflight"
  /\ LET r == witem[w]
         e == IF x \in Exceptions THEN x ELSE ResponseError(reqOp[r], x)
         d == RetryDecision(e, attempt[w])
         log == [api_log EXCEPT ![r] = Append(@, LogRow(reqOp[r], e, x))]
     IN  /\ api_log' = log
         /\ warnings' = IF BudgetExceeded(DailyCost(log))
                        THEN warnings + 1 ELSE warnings
         /\ lastErr' = [lastErr EXCEPT ![r] = e]
         /\ CASE d = "return" ->
                   /\ Finish(w, "complete", x, None)
                   /\ cache' = CacheAfterSet(cache, cache_key(reqText[r]), x)
                   /\ everPut' = everPut \cup {cache_key(reqText[r])}
                   /\ UNCHANGED delay
              [] d = "exhausted" ->
                   /\ Finish(w, "failed", None, ExhaustedError(e))
                   /\ UNCHANGED <<cache, everPut, delay>>
              [] d = "raise" ->
                   /\ Finish(w, "failed", None, e)
                   /\ UNCHANGED <<cache, everPut, delay>>
              [] d = "sleep" ->
                   /\ delay' = [delay EXCEPT ![w] = BackoffDelay(attempt[w], jitter)]
                   /\ wpc' = [wpc EXCEPT ![w] = "backoff"]
                   /\ UNCHANGED <<status, result, failKind, semaphore,
                                  unfinished, witem, cache, everPut>>
  /\ UNCHANGED <<now, request_times, grants, queue, wwake, attempt, reqOp,
                 reqText, calls, permits, slots, overBudget, stats>>
  /\ UNCHANGED <<cacheCallerVars, clientVars, validatorVars, storeVars,
                 formatterVars>>

\* retry_with_backoff: asyncio.sleep(delay) ends, the next attempt calls
BackoffWake_SameAttempt(w) ==
  /\ wpc[w] = "backoff"
  /\ calls' = [calls EXCEPT ![witem[w]] = @ + 1]
  /\ wpc' = [wpc EXCEPT ![w] = "inflight"]
  /\ delay' = [delay EXCEPT ![w] = 0]
  /\ UNCHANGED <<now, request_times, grants, semaphore, queue, unfinished,
                 witem, wwake, attempt, status, reqOp, reqText, result,
                 failKind, lastErr, permits, slots, overBudget, api_log,
                 warnings, cache, stats, everPut,
                 cacheCallerVars, clientVars, validatorVars, storeVars,
                 formatterVars>>
BackoffWake(w) ==
  /\ wpc[w] = "backoff"
  /\ attempt' = [attempt EXCEPT ![w] = @ + 1]
  /\ calls' = [calls EXCEPT ![witem[w]] = @ + 1]
  /\ wpc' = [wpc EXCEPT ![w] = "inflight"]
  /\ delay' = [delay EXCEPT ![w] = 0]
  /\ UNCHANGED <<now, request_times, grants, semaphore, queue, unfinished,
                 witem, wwake, status, reqOp, reqText, result,
                 failKind, lastErr, permits, slots, overBudget, api_log,
                 warnings, cache, stats, everPut,
                 cacheCallerVars, clientVars, validatorVars, storeVars,
                 formatterVars>>

\* the positions inside "async with self.semaphore", whose exit releases
HoldsSlot_CallOnly(pc) == pc \in {"inflight", "backoff"}
HoldsSlot(pc) == pc \in {"rlwait", "inflight", "backoff"}

\* the worker task is cancelled at a suspension point: CancelledError
\* unwinds through "finally" and "async with"
Cancel(w) ==
  /\ wpc[w] \in {"sem", "rlwait", "inflight", "backoff"}
  /\ Cardinality({v \in Workers : wpc[v] = "dead"}) < MaxCancels
  /\ semaphore' = IF HoldsSlot(wpc[w]) THEN semaphore + 1 ELSE semaphore
  /\ unfinished' = IF wpc[w] \in {"inflight", "backoff"}
                   THEN unfinished - 1 ELSE unfinished
  /\ wpc' = [wpc EXCEPT ![w] = "dead"]
  /\ UNCHANGED <<now, request_times, grants, queue, witem, wwake, attempt,
                 delay, status, reqOp, reqText, result, failKind, lastErr,
                 calls, permits, slots, overBudget, api_log, warnings,
                 cache, stats, everPut,
                 cacheCallerVars, clientVars, validatorVars, storeVars,
                 formatterVars>>

\* time passes
Tick ==
  /\ now + TickSeconds <= MaxTime
  /\ now' = now + TickSeconds
  /\ UNCHANGED <<request_times, grants, semaphore, queue, unfinished, wpc,
                 witem, wwake, attempt, delay, status, reqOp, reqText,
                 result, failKind, lastErr, calls, permits, slots,
                 overBudget, api_log, warnings, cache, stats, everPut,
                 cacheCallerVars, clientVars, validatorVars, storeVars,
                 formatterVars>>

(***************************************************************************)
(* DocumentCache called directly                                           *)
(***************************************************************************)
MaxCacheOps == 4

CacheTexts == Texts \cup {"T3", "T4"}
Payloads == {"", "p", "PP", "HUGE"}

\* len(value.encode()) of the representative payloads
PayloadBytes(v) ==
  IF v = "" THEN 0 ELSE IF v = "p" THEN 50 ELSE IF v = "PP" THEN 150 ELSE 400

\* DocumentCache.set(key, value)
CachePut(k, v) ==
  /\ cacheOps < MaxCacheOps
  /\ cache' = CacheAfterSet(cache, k, v)
  /\ everPut' = everPut \cup {k}
  /\ lastOp' = "set"
  /\ cacheOps' = cacheOps + 1
  /\ accessed_at' = IF k \in CacheKeysOf(cache')
                    THEN [accessed_at EXCEPT ![k[2]] = cacheOps + 1]
                    ELSE accessed_at
  /\ UNCHANGED <<backendVars, stats, got, clientVars, validatorVars, storeVars,
                 formatterVars>>

\* DocumentCache.get(key)
CacheGet(k) ==
  /\ cacheOps < MaxCacheOps
  /\ got' = [key |-> k, value |-> CacheGetResult(cache, k)]
  /\ stats' = StatsAfterGet(stats, cache, k)
  /\ cache' = LruAfterGet(cache, k)
  /\ lastOp' = "get"
  /\ cacheOps' = cacheOps + 1
  /\ accessed_at' = IF k \in CacheKeysOf(cache)
                    THEN [accessed_at EXCEPT ![k[2]] = cacheOps + 1]
                    ELSE accessed_at
  /\ UNCHANGED <<backendVars, everPut, clientVars, validatorVars, storeVars,
                 formatterVars>>

NextCache ==
  \/ \E t \in CacheTexts, v \in Payloads : CachePut(cache_key(t), v)
  \/ \E t \in CacheTexts : CacheGet(cache_key(t))

SpecCache == Init /\ [][NextCache]_vars

(***************************************************************************)
(* Frontend HTTP client: error transformation and retry                    *)
(***************************************************************************)

\* enum ErrorCode
ErrorCodes ==
  {"INVALID_PDF", "FILE_TOO_LARGE", "UNSUPPORTED_FILE_TYPE",
   "FILE_CORRUPTED", "FILE_NOT_FOUND", "DUPLICATE_FILE", "RATE_LIMITED",
   "TIMEOUT", "API_ERROR", "AUTH_ERROR", "QUOTA_EXCEEDED", "DB_ERROR",
   "DB_CONNECTION_ERROR", "DB_TRANSACTION_ERROR", "RECORD_NOT_FOUND",
   "DUPLICATE_RECORD", "PARSING_ERROR", "GENERATION_ERROR",
   "VALIDATION_ERROR", "PROCESSING_TIMEOUT", "DOCUMENT_NOT_READY",
   "INVALID_STATE", "OPERATION_NOT_ALLOWED", "INTERNAL_ERROR",
   "UNKNOWN_ERROR", "CONFIGURATION_ERROR", "NETWORK_ERROR"}

\* ERROR_MESSAGES: the user-facing message of every ErrorCode
ERROR_MESSAGES ==
  [errorCode \in ErrorCodes |->
     CASE errorCode = "INVALID_PDF" ->
            "The file you uploaded is not a valid PDF document. Please check the file and try again."
       [] errorCode = "FILE_TOO_LARGE" ->
            "The file is too large. Maximum file size is 100MB."
       [] errorCode = "UNSUPPORTED_FILE_TYPE" ->
            "This file type is not supported. Please upload a PDF document."
       [] errorCode = "FILE_CORRUPTED" ->
            "The PDF file appears to be corrupted. Please try uploading a different file."
       [] errorCode = "FILE_NOT_FOUND" ->
            "The requested document could not be found. It may have been deleted."
       [] errorCode = "DUPLICATE_FILE" ->
            "This file has already been uploaded."
       [] errorCode = "RATE_LIMITED" ->
            "Too many requests. Please wait a moment and try again."
       [] errorCode = "TIMEOUT" ->
            "The request took too long to complete. Please try again."
       [] errorCode = "API_ERROR" ->
            "An error occurred while communicating with the server. Please try again."
       [] errorCode = "AUTH_ERROR" ->
            "Authentication failed. Please check your credentials."
       [] errorCode = "QUOTA_EXCEEDED" ->
            "API quota exceeded. Please try again later."
       [] errorCode = "DB_ERROR" ->
            "A database error occurred. Please try again later."
       [] errorCode = "DB_CONNECTION_ERROR" ->
            "Unable to connect to the database. Please try again later."
       [] errorCode = "DB_TRANSACTION_ERROR" ->
            "A database transaction error occurred. Please try again."
       [] errorCode = "RECORD_NOT_FOUND" ->
            "The requested record was not found."
       [] errorCode = "DUPLICATE_RECORD" ->
            "This record already exists."
       [] errorCode = "PARSING_ERROR" ->
            "Unable to parse the document. The PDF may be corrupted or use unsupported features."
       [] errorCode = "GENERATION_ERROR" ->
            "Failed to generate the requested content. Please try again."
       [] errorCode = "VALIDATION_ERROR" ->
            "The request contains invalid data. Please check your input."
       [] errorCode = "PROCESSING_TIMEOUT" ->
            "Processing took too long and was cancelled. Please try again."
       [] errorCode = "DOCUMENT_NOT_READY" ->
            "The document is still being processed. Please wait and try again."
       [] errorCode = "INVALID_STATE" ->
            "The document is not in a valid state for this operation."
       [] errorCode = "OPERATION_NOT_ALLOWED" ->
            "This operation is not allowed for this document."
       [] errorCode = "INTERNAL_ERROR" ->
            "An internal server error occurred. Please try again later."
       [] errorCode = "UNKNOWN_ERROR" ->
            "An unexpected error occurred. Please try again."
       [] errorCode = "CONFIGURATION_ERROR" ->
            "A configuration error occurred. Please contact support."
       [] OTHER ->
            "Unable to connect to the server. Please check your internet connection."]

retryableErrors ==
  {"NETWORK_ERROR", "TIMEOUT", "RATE_LIMITED", "DB_CONNECTION_ERROR",
   "API_ERROR"}

isRetryableError_ServerErrors(errorCode) ==
  errorCode \in retryableErrors \cup {"INTERNAL_ERROR"}
isRetryableError(errorCode) == errorCode \in retryableErrors

mapStatusCodeToErrorCode(statusCode) ==
  IF statusCode \in {401, 403} THEN "AUTH_ERROR"
  ELSE IF statusCode = 404 THEN "FILE_NOT_FOUND"
  ELSE IF statusCode = 408 THEN "TIMEOUT"
  ELSE IF statusCode = 413 THEN "FILE_TOO_LARGE"
  ELSE IF statusCode = 429 THEN "RATE_LIMITED"
  ELSE IF statusCode \in {500, 502, 503, 504} THEN "INTERNAL_ERROR"
  ELSE "UNKNOWN_ERROR"

\* new ApiError(errorCode, message, statusCode, {isRetryable})
ApiError(errorCode, message, statusCode, retryable) ==
  [errorCode |-> errorCode, message |-> message, statusCode |-> statusCode,
   isRetryable |-> retryable]

\* ERROR_MESSAGES[errorCode] || response.detail || 'An error occurred'
MessageOrDetail(errorCode, detail) ==
  IF errorCode \in DOMAIN ERROR_MESSAGES THEN ERROR_MESSAGES[errorCode]
  ELSE IF detail # "" THEN detail ELSE "An error occurred"

\* response?.error_code is falsy when the body or the field is missing or
\* empty
transformErrorResponse_NoFlag(response, statusCode) ==
  IF response.error_code # None /\ response.error_code # ""
  THEN ApiError(response.error_code,
                MessageOrDetail(response.error_code, response.detail),
                statusCode, FALSE)
  ELSE ApiError(mapStatusCodeToErrorCode(statusCode),
                ERROR_MESSAGES[mapStatusCodeToErrorCode(statusCode)],
                statusCode, FALSE)
transformErrorResponse(response, statusCode) ==
  IF response.error_code # None /\ response.error_code # ""
  THEN ApiError(response.error_code,
                MessageOrDetail(response.error_code, response.detail),
                statusCode, isRetryableError(response.error_code))
  ELSE ApiError(mapStatusCodeToErrorCode(statusCode),
                ERROR_MESSAGES[mapStatusCodeToErrorCode(statusCode)],
                statusCode,
                isRetryableError(mapStatusCodeToErrorCode(statusCode)))

transformNetworkError ==
  ApiError("NETWORK_ERROR", ERROR_MESSAGES["NETWORK_ERROR"], 0, TRUE)

shouldRetry_OneMore(retry, error) ==
  IF ~retry.present THEN FALSE
  ELSE IF retry.retries > maxRetries THEN FALSE
  ELSE error.isRetryable
shouldRetry(retry, error) ==
  IF ~retry.present THEN FALSE
  ELSE IF retry.retries >= maxRetries THEN FALSE
  ELSE error.isRetryable

\* retryRequest: the delay slept after the counter was incremented
RetryRequestDelay_FromTwo(retry) == retry.retryDelay * Pow(2, retry.retries)
RetryRequestDelay(retry) == retry.retryDelay * Pow(2, retry.retries - 1)

\* what the server, or the network, answers to one request
HttpReply(statusCode, code, detail) ==
  [kind |-> "http", status |-> statusCode, error_code |-> code,
   detail |-> detail]
\* the last three replies carry a code of the mindmap validator, which the
\* client's ErrorCode enum does not list, or no code at all
Replies ==
  {[kind |-> "ok", status |-> 200, error_code |-> None, detail |-> ""],
   [kind |-> "network", status |-> 0, error_code |-> None, detail |-> ""],
   HttpReply(401, None, ""), HttpReply(404, None, ""),
   HttpReply(408, None, ""), HttpReply(429, None, ""),
   HttpReply(500, None, ""), HttpReply(503, None, ""),
   HttpReply(400, "VALIDATION_ERROR", "Invalid request"),
   HttpReply(429, "RATE_LIMITED", "Rate limit exceeded"),
   HttpReply(429, "QUOTA_EXCEEDED", "Quota exceeded"),
   HttpReply(500, "API_ERROR", "Upstream error"),
   HttpReply(503, "DB_CONNECTION_ERROR", "Database unavailable"),
   HttpReply(400, "MAX_DEPTH_EXCEEDED", "Mindmap too deep"),
   HttpReply(400, "MAX_DEPTH_EXCEEDED", ""),
   HttpReply(500, "", "Internal Server Error")}

\* apiClient.request(config): the request interceptor initialises _retry
ClientRequest ==
  /\ c_pc = "idle"
  /\ c_retry' = IF ~c_retry.present
                THEN [present |-> TRUE, retries |-> 0, retryDelay |-> retryDelay]
                ELSE c_retry
  /\ c_calls' = c_calls + 1
  /\ c_pc' = "inflight"
  /\ UNCHANGED <<c_sleeps, c_lastErr, c_reply, c_rejected>>
  /\ UNCHANGED <<backendVars, cacheVars, cacheCallerVars, validatorVars,
                 storeVars, formatterVars>>

\* the response interceptor handles the reply to the request in flight
ClientResponse(reply) ==
  /\ c_pc = "inflight"
  /\ c_reply' = reply
  /\ IF reply.kind = "ok"
     THEN /\ c_pc' = "resolved"
          /\ UNCHANGED <<c_retry, c_sleeps, c_lastErr, c_rejected>>
     ELSE LET apiError == IF reply.kind = "network"
                          THEN transformNetworkError
                          ELSE transformErrorResponse(reply, reply.status)
              retry == [c_retry EXCEPT !.retries = @ + 1]
          IN  /\ c_lastErr' = apiError
              /\ IF shouldRetry(c_retry, apiError)
                 THEN /\ c_retry' = retry
                      /\ c_sleeps' = Append(c_sleeps, RetryRequestDelay(retry))
                      /\ c_pc' = "sleeping"
                      /\ UNCHANGED c_rejected
                 ELSE /\ c_rejected' = apiError
                      /\ c_pc' = "rejected"
                      /\ UNCHANGED <<c_retry, c_sleeps>>
  /\ UNCHANGED c_calls
  /\ UNCHANGED <<backendVars, cacheVars, cacheCallerVars, validatorVars,
                 storeVars, formatterVars>>

\* retryRequest: the timer fires and the request is sent again
ClientRetryFire ==
  /\ c_pc = "sleeping"
  /\ c_calls' = c_calls + 1
  /\ c_pc' = "inflight"
  /\ UNCHANGED <<c_retry, c_sleeps, c_lastErr, c_reply, c_rejected>>
  /\ UNCHANGED <<backendVars, cacheVars, cacheCallerVars, validatorVars,
                 storeVars, formatterVars>>

\* one client request and one backend request, retried independently
NextRetry ==
  \/ ClientRequest
  \/ \E reply \in Replies : ClientResponse(reply)
  \/ ClientRetryFire
  \/ \E op \in Ops, text \in Texts : Submit(1, op, text)
  \/ \E w \in Workers : Dequeue(w)
  \/ \E w \in Workers : Enter(w)
  \/ \E w \in Workers, x \in Exceptions \cup ResponseTexts("summarize")
                                 \cup ResponseTexts("mindmap"), j \in Jitters :
        /\ wpc[w] = "inflight"
        /\ x \in Exceptions \cup ResponseTexts(reqOp[witem[w]])
        /\ CallReturn(w, x, j)
  \/ \E w \in Workers : BackoffWake(w)

SpecRetry == Init /\ [][NextRetry]_vars

\* the same under the assumptions that every call in flight returns or hits
\* its deadline, every sleep ends and the event loop runs every ready task
SpecRetryFair ==
  /\ Init
  /\ [][NextRetry]_vars
  /\ WF_vars(\E reply \in Replies : ClientResponse(reply))
  /\ WF_vars(ClientRetryFire)
  /\ \A w \in Workers :
       /\ WF_vars(Dequeue(w))
       /\ WF_vars(Enter(w))
       /\ WF_vars(BackoffWake(w))
       /\ WF_vars(\E x \in Exceptions \cup ResponseTexts("summarize")
                               \cup ResponseTexts("mindmap"), j \in Jitters :
                    /\ wpc[w] = "inflight"
                    /\ x \in Exceptions \cup ResponseTexts(reqOp[witem[w]])
                    /\ CallReturn(w, x, j))

(***************************************************************************)
(* Mindmap structure validation                                            *)
(***************************************************************************)
\* limits of the validators: hierarchy levels and children per node
MaxDepth == 10
MaxChildren == 100

\* the index of the first child whose validation fails, 0 if none
FirstBad(bad) == IF bad = {} THEN 0 ELSE CHOOSE i \in bad : \A j \in bad : i <= j

\* validate_mindmap_json.validate_node(node, depth)
RECURSIVE validate_node(_, _)
validate_node(node, depth) ==
  IF depth > MaxDepth THEN "MAX_DEPTH_EXCEEDED"
  ELSE IF node.title.kind # "str" THEN "MISSING_TITLE"
  ELSE IF node.children.kind # "list" THEN "MISSING_CHILDREN"
  ELSE IF Len(node.children.items) > MaxChildren THEN "TOO_MANY_CHILDREN"
  ELSE LET items == node.children.items
           bad == {i \in 1..Len(items) :
                     validate_node(items[i], depth + 1) # "ok"}
       IN  IF bad = {} THEN "ok"
           ELSE validate_node(items[FirstBad(bad)], depth + 1)

\* GeminiService._validate_mindmap_structure(obj, depth)
RECURSIVE validate_mindmap_structure(_, _)
validate_mindmap_structure(obj, depth) ==
  IF depth > MaxDepth THEN "MINDMAP_TOO_DEEP"
  ELSE IF obj.title.kind # "str" THEN "INVALID_NODE"
  ELSE IF obj.children.kind # "list" THEN "INVALID_NODE"
  ELSE IF Len(obj.children.items) > MaxChildren THEN "TOO_MANY_CHILDREN"
  ELSE LET items == obj.children.items
           bad == {i \in 1..Len(items) :
                     validate_mindmap_structure(items[i], depth + 1) # "ok"}
       IN  IF bad = {} THEN "ok"
           ELSE validate_mindmap_structure(items[FirstBad(bad)], depth + 1)

\* n equal children
Copies(n, child) == [i \in 1..n |-> child]

\* a chain of d nodes with one child each, above the node bottom
RECURSIVE Chain(_, _)
Chain(d, bottom) ==
  IF d = 0 THEN bottom ELSE Node(OkTitle, <<Chain(d - 1, bottom)>>)

\* the trees validated: a chain of d nodes above a node with title t and n
\* children that have m leaves each, or above a node without "children"
ChainLengths == {0, 3, 8, 9, 10, 11}
Fans == {0, 1, 100, 101}
SubFans == {0, 5}
Titles == {OkTitle, EmptyTitle, NumberTitle, MissingTitle}
Trees ==
  {Chain(d, Node(t, Copies(n, Node(OkTitle, Copies(m, Leaf))))) :
     d \in ChainLengths, t \in Titles, n \in Fans, m \in SubFans}
  \cup {Chain(d, NodeNoChildren(t)) : d \in ChainLengths, t \in Titles}

\* mindmap_obj = json.loads(json_text)
ParseMindmap(tree) ==
  /\ v_pc = "idle"
  /\ v_tree' = tree
  /\ v_pc' = "parsed"
  /\ UNCHANGED <<v_result, backendVars, cacheVars, cacheCallerVars,
                 clientVars, storeVars, formatterVars>>

\* the parsed tree is validated
ValidateMindmap ==
  /\ v_pc = "parsed"
  /\ v_result' = [json |-> validate_node(v_tree, 0),
                  structure |-> validate_mindmap_structure(v_tree, 0)]
  /\ v_pc' = "done"
  /\ UNCHANGED <<v_tree, backendVars, cacheVars, cacheCallerVars,
                 clientVars, storeVars, formatterVars>>

NextValidate ==
  \/ \E tree \in Trees : ParseMindmap(tree)
  \/ ValidateMindmap

SpecValidate == Init /\ [][NextValidate]_vars

(***************************************************************************)
(* useDocumentStore                                                        *)
(***************************************************************************)
\* store actions explored in one run, and documents in one list
MaxStoreOps == 3
MaxDocs == 2

\* the fields of Document the model keeps
DocFields == {"id", "filename", "upload_status"}
DocIds == {1, 2}

\* documents as the API returns them
StoreDocs ==
  {[id |-> i, filename |-> "a.pdf", upload_status |-> "parsing"] : i \in DocIds}
DocLists == UNION {[1..n -> StoreDocs] : n \in 0..MaxDocs}

\* Partial<Document>: the keys present and their values
Updates ==
  {[keys |-> K,
    vals |-> [id |-> IF "id" \in K THEN i ELSE 0,
              filename |-> IF "filename" \in K THEN "b.pdf" ELSE "",
              upload_status |-> IF "upload_status" \in K THEN "ready" ELSE ""]] :
     K \in SUBSET DocFields, i \in DocIds}

\* { ...doc, ...updates }
Merge(doc, updates) ==
  [id |-> IF "id" \in updates.keys THEN updates.vals.id ELSE doc.id,
   filename |-> IF "filename" \in updates.keys
                THEN updates.vals.filename ELSE doc.filename,
   upload_status |-> IF "upload_status" \in updates.keys
                     THEN updates.vals.upload_status ELSE doc.upload_status]

\* state.documents.map((doc) => doc.id === id ? { ...doc, ...updates } : doc)
UpdateDocuments(docs, id, updates) ==
  [i \in 1..Len(docs) |->
     IF docs[i].id = id THEN Merge(docs[i], updates) ELSE docs[i]]

\* state.currentDocument?.id === id ? {...} : state.currentDocument
UpdateCurrent_Always(cur, id, updates) ==
  IF cur # <<>> THEN <<Merge(cur[1], updates)>> ELSE cur
UpdateCurrent(cur, id, updates) ==
  IF cur # <<>> /\ cur[1].id = id THEN <<Merge(cur[1], updates)>> ELSE cur

\* the action just run is recorded
Ran(op, id, updates) ==
  /\ s_ops < MaxStoreOps
  /\ s_ops' = s_ops + 1
  /\ s_last' = [op |-> op, id |-> id, updates |-> updates]
  /\ UNCHANGED <<backendVars, cacheVars, cacheCallerVars, clientVars,
                 validatorVars, formatterVars>>

setDocuments(docs) ==
  /\ Ran("setDocuments", 0, NoUpdates)
  /\ documents' = docs
  /\ UNCHANGED <<currentDocument, loading, errors>>

setCurrentDocument(cur) ==
  /\ Ran("setCurrentDocument", 0, NoUpdates)
  /\ currentDocument' = cur
  /\ UNCHANGED <<documents, loading, errors>>

addDocument(document) ==
  /\ Len(documents) < MaxDocs
  /\ Ran("addDocument", document.id, NoUpdates)
  /\ documents' = Append(documents, document)
  /\ UNCHANGED <<currentDocument, loading, errors>>

updateDocument(id, updates) ==
  /\ Ran("updateDocument", id, updates)
  /\ documents' = UpdateDocuments(documents, id, updates)
  /\ currentDocument' = UpdateCurrent(currentDocument, id, updates)
  /\ UNCHANGED <<loading, errors>>

\* state.documents.filter((doc) => doc.id !== id)
FilterDocuments_First(docs, id) ==
  IF \E i \in 1..Len(docs) : docs[i].id = id
  THEN LET k == CHOOSE i \in 1..Len(docs) :
                  docs[i].id = id /\ \A j \in 1..(i - 1) : docs[j].id # id
       IN  SubSeq(docs, 1, k - 1) \o SubSeq(docs, k + 1, Len(docs))
  ELSE docs
FilterDocuments(docs, id) == SelectSeq(docs, LAMBDA doc : doc.id # id)

deleteDocument(id) ==
  /\ Ran("deleteDocument", id, NoUpdates)
  /\ documents' = FilterDocuments(documents, id)
  /\ currentDocument' =
       IF currentDocument # <<>> /\ currentDocument[1].id = id
       THEN <<>> ELSE currentDocument
  /\ UNCHANGED <<loading, errors>>

setLoading(key, value) ==
  /\ Ran("setLoading", 0, NoUpdates)
  /\ loading' = [loading EXCEPT ![key] = value]
  /\ UNCHANGED <<documents, currentDocument, errors>>

setError(key, error) ==
  /\ Ran("setError", 0, NoUpdates)
  /\ errors' = [errors EXCEPT ![key] = error]
  /\ UNCHANGED <<documents, currentDocument, loading>>

clearErrors ==
  /\ Ran("clearErrors", 0, NoUpdates)
  /\ errors' = initialErrors
  /\ UNCHANGED <<documents, currentDocument, loading>>

reset ==
  /\ Ran("reset", 0, NoUpdates)
  /\ documents' = <<>>
  /\ currentDocument' = <<>>
  /\ loading' = initialLoading
  /\ errors' = initialErrors

NextStore ==
  \/ \E docs \in DocLists : setDocuments(docs)
  \/ \E cur \in {<<>>} \cup {<<d>> : d \in StoreDocs} : setCurrentDocument(cur)
  \/ \E document \in StoreDocs : addDocument(document)
  \/ \E id \in DocIds, updates \in Updates : updateDocument(id, updates)
  \/ \E id \in DocIds : deleteDocument(id)
  \/ \E value \in BOOLEAN : setLoading("documents", value)
  \/ \E error \in {"Failed to load", None} : setError("documents", error)
  \/ clearErrors
  \/ reset

SpecStore == Init /\ [][NextStore]_vars

\* a request fails and the caller catches the error
CatchError(error) ==
  /\ f_pc = "idle"
  /\ f_error' = error
  /\ f_pc' = "caught"
  /\ UNCHANGED <<f_result, backendVars, cacheVars, cacheCallerVars,
                 clientVars, validatorVars, storeVars>>

\* const formatted = formatError(error)
FormatError ==
  /\ f_pc = "caught"
  /\ f_result' = formatError(f_error)
  /\ f_pc' = "done"
  /\ UNCHANGED <<f_error, backendVars, cacheVars, cacheCallerVars,
                 clientVars, validatorVars, storeVars>>

NextFormat ==
  \/ /\ f_pc = "idle"
     /\ \E error \in ErrorObjects : CatchError(error)
  \/ FormatError

SpecFormat == Init /\ [][NextFormat]_vars

\* the whole environment, two requests; the texts are interchangeable, so
\* the first request's text is called T1
NumFlowReqs == 2
Next ==
  \/ \E r \in 1..NumFlowReqs, op \in Ops, text \in Texts :
        /\ r = 1 => text = "T1"
        /\ Submit(r, op, text)
  \/ \E w \in Workers : Dequeue(w)
  \/ \E w \in Workers : MayCall /\ Enter(w)
  \/ \E w \in Workers, x \in Exceptions \cup ResponseTexts("summarize")
                                 \cup ResponseTexts("mindmap") :
        /\ wpc[w] = "inflight"
        /\ x \in Exceptions \cup ResponseTexts(reqOp[witem[w]])
        /\ CallReturn(w, x, 0)
  \/ \E w \in Workers : MayCall /\ BackoffWake(w)
  \/ \E w \in Workers : MayCall /\ RlWake(w)
  \/ Tick

Spec == Init /\ [][Next]_vars

\* three summary requests on the queue, the clock running
NextQueue ==
  \/ \E r \in Reqs : Submit(r, "summarize", "T1")
  \/ \E w \in Workers : Dequeue(w)
  \/ \E w \in Workers : MayCall /\ Enter(w)
  \/ \E w \in Workers : MayCall /\ RlWake(w)
  \/ \E w \in Workers, x \in {"p", "NonRetryableError", "TimeoutError"} :
        CallReturn(w, x, 0)
  \/ \E w \in Workers : MayCall /\ BackoffWake(w)
  \/ \E w \in Workers : Cancel(w)
  \/ Tick

SpecQueue == Init /\ [][NextQueue]_vars

\* summary requests on one text, their calls overlapping and returning
\* different summaries
NextRace ==
  \/ \E r \in Reqs : Submit(r, "summarize", "T1")
  \/ \E w \in Workers : Dequeue(w)
  \/ \E w \in Workers : Enter(w)
  \/ \E w \in Workers : RlWake(w)
  \/ \E w \in Workers, x \in {"p", "PP"} : CallReturn(w, x, 0)
  \/ Tick

SpecRace == Init /\ [][NextRace]_vars

\* the rate limiter under the queue's workers, every call succeeding; the
\* event loop runs every coroutine that is ready and the clock advances
NextLimiter ==
  \/ \E r \in Reqs, text \in Texts : Submit(r, "summarize", text)
  \/ \E w \in Workers : Dequeue(w)
  \/ \E w \in Workers : Enter(w)
  \/ \E w \in Workers : RlWake(w)
  \/ \E w \in Workers : CallReturn(w, "p", 0)
  \/ Tick

SpecLimiter ==
  /\ Init
  /\ [][NextLimiter]_vars
  /\ WF_vars(Tick)
  /\ \A w \in Workers : WF_vars(RlWake(w))

(***************************************************************************)
(* RateLimiter and RequestQueue properties                                 *)
(***************************************************************************)
RECURSIVE SumGrants(_, _)
SumGrants(g, ts) ==
  IF ts = {} THEN 0
  ELSE LET t == CHOOSE x \in ts : TRUE IN g[t] + SumGrants(g, ts \ {t})

\* permits granted in the window (t - WindowSeconds, t]
GrantsInWindow(t) ==
  SumGrants(grants, {u \in Times : t - WindowSeconds < u /\ u <= t})

\* C1: whatever the interleaving of acquire() calls, at most rpm permits
\* are granted inside any window of length WindowSeconds.
C1_WindowBound == \A t \in Times : GrantsInWindow(t) <= rpm

InFlight == {w \in Workers : wpc[w] = "inflight"}

\* C2: at most max_concurrent remote calls are in flight at once.
C2_GateBound == Cardinality(InFlight) <= max_concurrent

C2_GateFull ==
  /\ Cardinality(InFlight) = max_concurrent
  /\ \E w \in Workers : wpc[w] = "sem"

SlotHolders == {w \in Workers : wpc[w] \in {"rlwait", "inflight", "backoff"}}

Terminal(r) ==
  \/ status[r] \in {"complete", "failed"}
  \/ \E w \in Workers : wpc[w] = "dead" /\ witem[w] = r

C7_CacheHit ==
  [][\A r \in Reqs :
       (status[r] = "new" /\ status'[r] = "complete") =>
         /\ result'[r] = LruValue(cache, cache_key(reqText'[r]))
         /\ result'[r] # None
         /\ slots'[r] = 0 /\ permits'[r] = 0 /\ calls'[r] = 0
         /\ api_log'[r] = <<>>
         /\ UNCHANGED <<request_times, grants, semaphore, queue, calls,
                        api_log, warnings>>]_vars

C7_HitServed ==
  \E r \in Reqs : status[r] = "complete" /\ calls[r] = 0 /\ result[r] # None

Rows(r) == Len(api_log[r])

SuccessRows(r) ==
  Cardinality({i \in 1..Rows(r) : api_log[r][i].status = "success"})

CallPending(r) == \E w \in Workers : wpc[w] = "inflight" /\ witem[w] = r

RECURSIVE CacheBytes(_)
CacheBytes(c) ==
  IF c = <<>> THEN 0 ELSE PayloadBytes(Head(c).value) + CacheBytes(Tail(c))

\* C5: the sum of the byte sizes of the resident entries never exceeds the
\* configured capacity, after any sequence of set and get
C5_CapacityBytes == CacheBytes(cache) <= CapacityBytes

\* C6: a get of a key never put returns Absent, and a get of a resident key
\* returns the value most recently put under that key
C6_Lookup ==
  [][(cacheOps' # cacheOps /\ lastOp' = "get") =>
       /\ got'.key \notin everPut => got'.value = None
       /\ got'.key \in CacheKeysOf(cache) =>
            got'.value = LruValue(cache, got'.key)]_vars

NonRetryKinds == {"NonRetryableError", "ValidationError"}

\* C10: an attempt that fails with a non-retryable error ends the request
\* at once with that error: no backoff sleep is started, the retry counter
\* does not move, and no call is made after the failure
C10_NoRetry ==
  [][/\ (c_pc = "inflight" /\ c_pc' \in {"sleeping", "rejected"}
           /\ c_lastErr'.errorCode \notin retryableErrors) =>
          /\ c_pc' = "rejected"
          /\ c_rejected' = c_lastErr'
          /\ c_sleeps' = c_sleeps
          /\ c_retry' = c_retry
     /\ c_pc = "rejected" => (c_calls' = c_calls /\ c_pc' = "rejected")
     /\ \A w \in Workers :
          (wpc[w] = "inflight" /\ wpc'[w] # "inflight"
             /\ lastErr'[witem[w]] \in NonRetryKinds) =>
            /\ status'[witem[w]] = "failed"
            /\ failKind'[witem[w]] = lastErr'[witem[w]]
            /\ wpc'[w] = "idle"
            /\ delay' = delay
     /\ \A r \in Reqs :
          status[r] = "failed" =>
            (calls'[r] = calls[r] /\ status'[r] = "failed")]_vars

\* both sides have failed on their first attempt with a non-retryable error
C10_SurfacedAtOnce ==
  /\ c_pc = "rejected" /\ c_rejected.errorCode \notin retryableErrors
  /\ c_calls = 1 /\ c_sleeps = <<>>
  /\ \E r \in Reqs :
       status[r] = "failed" /\ failKind[r] \in NonRetryKinds /\ calls[r] = 1

Min(a, b) == IF a <= b THEN a ELSE b

\* C12: the delay before the n-th retry is min(initialDelay * 2^(n-1),
\* maxDelay): the client sleeps exactly 1000, 2000, 4000 ms; the backend
\* sleeps the same base value plus a jitter below one second; the delays do
\* not decrease and never exceed maxDelay
C12_BackoffSchedule ==
  /\ \A n \in 1..Len(c_sleeps) :
       /\ c_sleeps[n] = Min(retryDelay * Pow(2, n - 1), maxDelay)
       /\ n > 1 => c_sleeps[n - 1] <= c_sleeps[n]
       /\ c_sleeps[n] <= maxDelay
  /\ \A w \in Workers :
       wpc[w] = "backoff" =>
         /\ delay[w] >= Min(base_delay * Pow(2, attempt[w]), maxDelay)
         /\ delay[w] < Min(base_delay * Pow(2, attempt[w]), maxDelay) + 1000
         /\ delay[w] <= maxDelay

\* the client has slept three times and a worker sleeps before its second
\* retry with the largest jitter
C12_ThreeSleeps ==
  /\ Len(c_sleeps) = 3
  /\ \E w \in Workers : wpc[w] = "backoff" /\ attempt[w] = 1 /\ delay[w] = 2999

C14_ServerErrorsRetried ==
  (/\ c_pc = "rejected"
   /\ c_reply.status \in {429, 500, 503}
   /\ c_rejected.errorCode # "QUOTA_EXCEEDED") =>
    /\ c_rejected.isRetryable
    /\ c_retry.retries = maxRetries
    /\ c_calls = maxRetries + 1

(***************************************************************************)
(* Mindmap validation properties                                           *)
(***************************************************************************)
\* the list of children of a node, empty when "children" is not a list
ChildrenOf(node) ==
  IF node.children.kind = "list" THEN node.children.items ELSE <<>>

SetMax(S) == IF S = {} THEN 0 ELSE CHOOSE x \in S : \A y \in S : y <= x

\* the depth of the deepest node, the root being at depth 0
RECURSIVE TreeDepth(_)
TreeDepth(node) ==
  IF ChildrenOf(node) = <<>> THEN 0
  ELSE 1 + SetMax({TreeDepth(ChildrenOf(node)[i]) :
                     i \in 1..Len(ChildrenOf(node))})

\* the number of nodes of the tree; the children lo..hi are summed by halves
RECURSIVE TreeSize(_)
RECURSIVE SizeSum(_, _, _)
SizeSum(items, lo, hi) ==
  IF lo > hi THEN 0
  ELSE IF lo = hi THEN TreeSize(items[lo])
  ELSE LET mid == (lo + hi) \div 2
       IN  SizeSum(items, lo, mid) + SizeSum(items, mid + 1, hi)
TreeSize(node) == 1 + SizeSum(ChildrenOf(node), 1, Len(ChildrenOf(node)))

\* some node has no title, a title that is not a string, or the title ""
RECURSIVE HasBadTitle(_)
HasBadTitle(node) ==
  \/ node.title.kind # "str"
  \/ node.title.text = ""
  \/ \E i \in 1..Len(ChildrenOf(node)) : HasBadTitle(ChildrenOf(node)[i])

\* some node has no list of children or more than MaxChildren children
RECURSIVE HasBadChildren(_)
HasBadChildren(node) ==
  \/ node.children.kind # "list"
  \/ Len(ChildrenOf(node)) > MaxChildren
  \/ \E i \in 1..Len(ChildrenOf(node)) : HasBadChildren(ChildrenOf(node)[i])

Verdicts == {v_result.json, v_result.structure}

\* C15: a tree with a node deeper than 10, and no other defect, is rejected
\* with MAX_DEPTH_EXCEEDED by each validator, and every accepted tree has
\* depth at most 10
C15_DepthRule ==
  v_pc = "done" =>
    /\ (TreeDepth(v_tree) > MaxDepth /\ ~HasBadTitle(v_tree)
          /\ ~HasBadChildren(v_tree)) => Verdicts = {"MAX_DEPTH_EXCEEDED"}
    /\ "ok" \in Verdicts => TreeDepth(v_tree) <= MaxDepth

\* the limit on the nodes of a whole tree
MaxTotalNodes == 500

\* C16: a tree of more than 500 nodes, with at most 100 children per node
\* and depth at most 10, is rejected with TOTAL_NODES_EXCEEDED, and every
\* accepted tree has at most 500 nodes
C16_TotalNodesRule ==
  v_pc = "done" =>
    /\ (TreeSize(v_tree) > MaxTotalNodes /\ TreeDepth(v_tree) <= MaxDepth
          /\ ~HasBadTitle(v_tree) /\ ~HasBadChildren(v_tree)) =>
         Verdicts = {"TOTAL_NODES_EXCEEDED"}
    /\ "ok" \in Verdicts => TreeSize(v_tree) <= MaxTotalNodes

\* C17: a tree with a node whose title is missing, not a string or empty
\* is rejected, and every node of an accepted tree has a non-empty string
\* title
C17_TitleRule ==
  v_pc = "done" => (HasBadTitle(v_tree) => "ok" \notin Verdicts)

(***************************************************************************)
(* Rate limiter blocking                                                   *)
(***************************************************************************)
\* the last instant the clock reaches
Horizon == (MaxTime \div TickSeconds) * TickSeconds

\* worker w finds the window full and starts to sleep in acquire()
Blocks(w) == wpc[w] = "sem" /\ wpc'[w] = "rlwait"

\* acquire() of worker w returns after its sleep
Returns(w) == wpc[w] = "rlwait" /\ wpc'[w] = "inflight"

\* an acquire() that blocks has found rpm grants in the window and sleeps
\* until the oldest of them is WindowSeconds old; it returns no earlier
C18_BlockedStep ==
  \A w \in Workers :
    /\ Blocks(w) =>
         LET rt == PruneTimes(request_times, now)
         IN  /\ Len(rt) >= rpm
             /\ wwake'[w] >= rt[1] + WindowSeconds
             /\ \A i \in 1..Len(rt) : rt[1] <= rt[i]
             /\ wwake'[w] - now >= WindowSeconds - (now - rt[1])
    /\ Returns(w) => now >= wwake[w]
    /\ (wpc[w] = "sem" /\ wpc'[w] = "inflight") =>
         Len(PruneTimes(request_times, now)) < rpm

\* C18: with rpm grants in the window the next acquire() does not return
\* before the oldest of them is WindowSeconds old, and it does return once
\* that time has passed
C18_Blocking ==
  /\ [][C18_BlockedStep]_vars
  /\ \A w \in Workers :
       (wpc[w] = "rlwait" /\ wwake[w] <= Horizon) ~> (wpc[w] = "inflight")

C18_ReturnedAfterWait ==
  \E w \in Workers :
    /\ wpc[w] = "inflight"
    /\ wwake[w] = WindowSeconds
    /\ now >= wwake[w]
    /\ Len(request_times) >= 1

(***************************************************************************)
(* Cost ledger                                                             *)
(***************************************************************************)
RECURSIVE ExactRows(_)
ExactRows(rows) ==
  IF rows = <<>> THEN 0
  ELSE Head(rows).tokens_input * price_input
         + Head(rows).tokens_output * price_output + ExactRows(Tail(rows))

RECURSIVE ExactOver(_, _)
ExactOver(log, rs) ==
  IF rs = {} THEN 0
  ELSE LET r == CHOOSE x \in rs : TRUE
       IN  ExactRows(log[r]) + ExactOver(log, rs \ {r})

\* the sum over the day's entries of tokens_input * price_input +
\* tokens_output * price_output
ExactSpend == ExactOver(api_log, Reqs)

\* C19: the day's cost is the exact sum of the costs of the entries logged,
\* each entry adding tokens_input * price_input + tokens_output *
\* price_output, and a step that logs nothing leaves it unchanged
C19_ExactLedger ==
  /\ [](DailyCost(api_log) = ExactSpend)
  /\ [][api_log' = api_log => DailyCost(api_log') = DailyCost(api_log)]_vars

(***************************************************************************)
(* Store properties                                                        *)
(***************************************************************************)
\* document d with the updates u merged in, field by field
Merged(d, u, e) ==
  \A f \in DocFields : e[f] = IF f \in u.keys THEN u.vals[f] ELSE d[f]

\* the step is updateDocument(id, u)
C20_UpdateStep ==
  (s_ops' # s_ops /\ s_last'.op = "updateDocument") =>
    LET id == s_last'.id
        u == s_last'.updates
        curHit == currentDocument # <<>> /\ currentDocument[1].id = id
    IN  /\ Len(documents') = Len(documents)
        /\ \A i \in 1..Len(documents) :
             IF documents[i].id = id
             THEN Merged(documents[i], u, documents'[i])
             ELSE documents'[i] = documents[i]
        /\ IF curHit
           THEN /\ currentDocument' # <<>>
                /\ Merged(currentDocument[1], u, currentDocument'[1])
           ELSE currentDocument' = currentDocument
        /\ loading' = loading
        /\ errors' = errors
        /\ ((\A i \in 1..Len(documents) : documents[i].id # id) /\ ~curHit)
             => /\ documents' = documents
                /\ currentDocument' = currentDocument

\* C20: updateDocument(id, updates) merges the updates into every document
\* of the list with that id, and into currentDocument exactly when it has
\* that id; the other documents, loading and errors are unchanged, and
\* nothing changes when no document and no currentDocument has the id
C20_UpdateDocument == [][C20_UpdateStep]_vars

\* an update of the status has reached a listed document that is also the
\* current one, next to a document with another id
C20_UpdatedBoth ==
  /\ s_last.op = "updateDocument"
  /\ s_last.updates.keys = {"upload_status"}
  /\ currentDocument # <<>>
  /\ currentDocument[1].id = s_last.id
  /\ currentDocument[1].upload_status = "ready"
  /\ \E i, j \in 1..Len(documents) :
       /\ documents[i].id = s_last.id
       /\ documents[i].upload_status = "ready"
       /\ documents[j].id # s_last.id
       /\ documents[j].upload_status = "parsing"

\* the step is deleteDocument(id)
C21_DeleteStep ==
  (s_ops' # s_ops /\ s_last'.op = "deleteDocument") =>
    LET id == s_last'.id
        Kept == {i \in 1..Len(documents) : documents[i].id # id}
    IN  /\ \A i \in 1..Len(documents') : documents'[i].id # id
        /\ Len(documents') = Cardinality(Kept)
        /\ \A i \in Kept :
             documents'[Cardinality({j \in Kept : j <= i})] = documents[i]
        /\ currentDocument' =
             IF currentDocument # <<>> /\ currentDocument[1].id = id
             THEN <<>> ELSE currentDocument
        /\ loading' = loading
        /\ errors' = errors

\* C21: deleteDocument(id) leaves no document with that id in the list and
\* clears currentDocument when it has that id; the documents with other ids
\* keep their order and content, a currentDocument with another id is kept,
\* and loading and errors are unchanged
C21_DeleteDocument == [][C21_DeleteStep]_vars

\* a delete has removed a listed document while another document, which is
\* also the current one, stays
C21_DeletedOne ==
  /\ s_last.op = "deleteDocument"
  /\ Len(documents) = 1
  /\ documents[1].id # s_last.id
  /\ currentDocument = <<documents[1]>>

(***************************************************************************)
(* errorFormatter properties                                               *)
(***************************************************************************)
\* the error carries a numeric HTTP status and no mapped error_code
StatusOnly(error) == error.status # 0 /\ error.error_code \notin FormatterErrorCodes

\* C22: an error with a numeric HTTP status and no mapped error_code is
\* formatted by its status: retryable for 429, 500, 502, 503 and 504, not
\* retryable for 400, 401, 403, 404 and 409, and for any other status
\* retryable exactly when the status is at least 500
C22_StatusHandling ==
  (f_pc = "done" /\ StatusOnly(f_error)) =>
    /\ f_error.status \in {429, 500, 502, 503, 504} => f_result.isRetryable
    /\ f_error.status \in {400, 401, 403, 404, 409} => ~f_result.isRetryable
    /\ f_error.status \notin StatusCodes =>
         (f_result.isRetryable <=> f_error.status >= 500)
    /\ f_error.status \in StatusCodes =>
         f_result = statusMessages[f_error.status]

\* C30: for an error code that both modules define, errorFormatter's
\* isRetryableError on an error with that error_code gives the verdict of
\* errorTransform's isRetryableError(code)
C30_ClassifiersAgree ==
  (f_pc = "done" /\ f_error.error_code \in FormatterErrorCodes \cap ErrorCodes
     /\ ~isNetworkError(f_error)) =>
    (f_result.isRetryable <=> isRetryableError(f_error.error_code))

(***************************************************************************)
(* DocumentCache eviction                                                  *)
(***************************************************************************)
\* the step is a direct set, respectively get
SetStep == cacheOps' # cacheOps /\ lastOp' = "set"
GetStep == cacheOps' # cacheOps /\ lastOp' = "get"

\* n entries fit the cache, counted as the cache counts them
Fits(n) == n * EntryEstimateBytes <= CapacityBytes

\* the texts whose entries the step removes
Evicted == {k[2] : k \in CacheKeysOf(cache) \ CacheKeysOf(cache')}
Survivors == {k[2] : k \in CacheKeysOf(cache) \cap CacheKeysOf(cache')}

C23_EvictionStep ==
  /\ (SetStep /\ Evicted # {}) =>
       /\ \A e \in Evicted, k \in Survivors : accessed_at[e] < accessed_at[k]
       /\ ~Fits(Len(cache) - Cardinality(Evicted) + 2)
       /\ Fits(Len(cache'))
       /\ Len(cache') = Len(cache) - Cardinality(Evicted) + 1
  /\ (SetStep /\ Fits(Len(cache) + 1)) => Evicted = {}
  /\ (GetStep /\ got'.value # None) =>
       /\ accessed_at'[got'.key[2]] = cacheOps'
       /\ \A k \in CacheKeysOf(cache') :
            accessed_at'[k[2]] <= accessed_at'[got'.key[2]]
       /\ Evicted = {}

\* C23: a set that has to evict removes the least recently used entries,
\* one at a time, and stops as soon as the new entry fits; a get hit makes
\* the entry it returns the most recently used
C23_LruOrder == [][C23_EvictionStep]_vars

\* an entry inserted first and read after a second entry was inserted has
\* outlived the second: the second was evicted, the first is still cached
C23_ReadEntryOutlives ==
  /\ lastOp = "set"
  /\ cache_key("T1") \in CacheKeysOf(cache)
  /\ cache_key("T2") \notin CacheKeysOf(cache)
  /\ 0 < accessed_at["T2"]
  /\ accessed_at["T2"] < accessed_at["T1"]
  /\ got = [key |-> cache_key("T1"), value |-> "p"]

\* C24: a value larger than the whole capacity is never cached
C24_OversizedRejected ==
  \A i \in 1..Len(cache) : PayloadBytes(cache[i].value) <= CapacityBytes

(***************************************************************************)
(* Request state machine                                                   *)
(***************************************************************************)
\* where request r stands, given the statuses st, the worker positions pc
\* and the workers' items wi
PhaseOf(st, pc, wi, r) ==
  IF st[r] = "new" THEN "New"
  ELSE IF st[r] = "complete" THEN "Succeeded"
  ELSE IF st[r] = "failed" THEN "Failed"
  ELSE IF \E w \in Workers : wi[w] = r
       THEN LET w == CHOOSE v \in Workers : wi[v] = r
            IN  CASE pc[w] \in {"sem", "rlwait"} -> "WaitingForPermit"
                  [] pc[w] = "inflight" -> "InFlight"
                  [] pc[w] = "backoff" -> "Backoff"
                  [] OTHER -> "Cancelled"
       ELSE "Queued"

\* the transitions of generation_status
StatusEdges ==
  {<<"new", "queued">>, <<"new", "complete">>, <<"queued", "generating">>,
   <<"generating", "complete">>, <<"queued", "failed">>,
   <<"generating", "failed">>}

\* the transitions of a request: the success path, a failure from any
\* non-terminal state, and the retry of a failed attempt after its backoff
PhaseEdges ==
  {<<"New", "Queued">>, <<"New", "Succeeded">>,
   <<"Queued", "WaitingForPermit">>, <<"WaitingForPermit", "InFlight">>,
   <<"InFlight", "Succeeded">>, <<"InFlight", "Backoff">>,
   <<"Backoff", "InFlight">>}
  \cup {<<x, "Failed">> :
          x \in {"Queued", "WaitingForPermit", "InFlight", "Backoff"}}

C25_Step ==
  \A r \in Reqs :
    LET before == PhaseOf(status, wpc, witem, r)
        after == PhaseOf(status', wpc', witem', r)
    IN  /\ status'[r] # status[r] => <<status[r], status'[r]>> \in StatusEdges
        /\ status[r] \in {"complete", "failed"} =>
             /\ status'[r] = status[r]
             /\ result'[r] = result[r]
             /\ failKind'[r] = failKind[r]
        /\ (after # before /\ after # "Cancelled") =>
             <<before, after>> \in PhaseEdges

C26_Termination ==
  /\ [](\A r \in Reqs : calls[r] <= max_retries + 1)
  /\ [](c_calls <= maxRetries + 1)
  /\ \A r \in Reqs :
       (status[r] \in {"queued", "generating"})
         ~> (status[r] \in {"complete", "failed"})
  /\ (c_pc \in {"inflight", "sleeping"}) ~> (c_pc \in {"resolved", "rejected"})

\* both requests have used every attempt and have failed
C26_GaveUp ==
  /\ status[1] = "failed"
  /\ calls[1] = max_retries
  /\ c_pc = "rejected"
  /\ c_calls = maxRetries + 1

(***************************************************************************)
(* Cache keys and operation kinds                                          *)
(***************************************************************************)
\* C29: a request answered from the cache gets a payload that was produced
\* for its own operation kind: a summary request never receives a mindmap
\* and a mindmap request never receives a summary
C29_KindsSeparate ==
  \A r \in Reqs :
    (status[r] = "complete" /\ calls[r] = 0)
      => result[r] \in ResponseTexts(reqOp[r])

(***************************************************************************)
(* Slots and permits per attempt                                           *)
(***************************************************************************)
\* the workers whose request is waiting for a permit or has its call in
\* flight
InAttempt == {w \in Workers : wpc[w] \in {"rlwait", "inflight"}}

\* C27: the taken slots are exactly those of the requests waiting for a
\* permit or in a call, so none is held during a backoff sleep, and every
\* remote call of a request has its own permit and its own slot
C27_PermitsPerAttempt ==
  /\ semaphore = max_concurrent - Cardinality(InAttempt)
  /\ \A r \in Reqs : calls[r] <= permits[r] /\ permits[r] <= slots[r]

(***************************************************************************)
(* Concurrent requests on one cache key                                    *)
(***************************************************************************)
EntriesOf(c, k) == {i \in 1..Len(c) : c[i].key = k}

\* the payloads produced by the remote calls of the completed requests on
\* the text of request r
Produced(r) ==
  {result'[q] : q \in {p \in Reqs : /\ status'[p] = "complete"
                                    /\ calls'[p] > 0
                                    /\ reqText'[p] = reqText[r]}}

C28_Step ==
  \A w \in Workers :
    (wpc[w] = "inflight" /\ status'[witem[w]] = "complete")
      => LET k == cache_key(reqText[witem[w]])
         IN  /\ Cardinality(EntriesOf(cache', k)) = 1
             /\ LruValue(cache', k) \in Produced(witem[w])
             /\ CurrSize(cache')
                  = EntryEstimateBytes * Cardinality(CacheKeysOf(cache'))

\* C28: when a request completes after its own remote call, whatever other
\* requests on the same key are running or have completed, the cache holds
\* exactly one entry for the key, its value is one of the payloads produced
\* for that key, and the cache's size total counts each key once
C28_SameKeyRace == [][C28_Step]_vars

\* two requests on one text have both called the service, got different
\* summaries and completed; one entry holds one of the two
C28_BothWrote ==
  /\ status[1] = "complete" /\ status[2] = "complete"
  /\ reqText[1] = reqText[2]
  /\ calls[1] > 0 /\ calls[2] > 0
  /\ result[1] # result[2]
  /\ Len(cache) = 1
  /\ cache[1].value \in {result[1], result[2]}

====
